---- MODULE Spec2Model ----
(***************************************************************************)
(* Mango disease detector: the image-analysis request/response path (two   *)
(* Express servers and the browser-side service), the markdown fence       *)
(* stripping they share, and the live audio relay of the chat panel.       *)
(*                                                                         *)
(* A reply text is a sequence of lexemes.  The fence-stripping regex only  *)
(* tells apart the backtick, the letters j s o n and whitespace, so these  *)
(* are single characters; a JSON member such as "isHealthy":true is one    *)
(* lexeme, which the regex treats as an ordinary non-space character.      *)
(***************************************************************************)
EXTENDS Integers, Sequences, FiniteSets, TLC

\* ------------------------------------------------------------------ bounds
MaxPieces == 6
MaxMembers == 3
MaxChunks == 2
MaxStarts == 2
MaxBuffers == 3
MaxDuration == 2
MaxTime == 3
MaxText == 1
MaxTurns == 2
MaxFrames == 3
MaxCaptureStarts == 1
MaxBlock == 2
MaxMounts == 3

\* --------------------------------------------------------------- variables
VARIABLES
    \* analysis request (one request at a time; the handlers keep no state)
    impl, req, pc, calls, upstream, responses, logs,
    \* fence stripping applied as a function
    stripIn, stripOut, stripParsed,
    \* live audio relay (Chatbot component)
    isOpen, status, nStarts, startPc, micLive, session, pendingClose,
    sessionRef, mediaStreamRef, scriptProcessorRef, procConnected,
    ctxRef, ctxClosed, sourcesRef, bufState,
    \* playback: the clock of the output context, the cursor, and the start
    \* time and duration given to each source node
    now, nextStartTimeRef, bufStart, bufDur,
    \* transcript: accumulators, rendered turns, updaters React has queued
    currentInputRef, currentOutputRef, transcriptions, lazyUpdaters,
    \* capture: the context each script processor lives on, blocks captured,
    \* frames waiting for sessionPromise, frames sent (session, block)
    procCtx, captured, queued, sent,
    \* history: the panel is closed and its close found the status connecting;
    \* the panel is closed and its close found the relay torn down; the turns
    \* completed so far, as spoken
    closedEarly, closedIdle, spoken,
    \* history: the release steps the last explicit close attempted, in order
    closeLog,
    \* analysis page (App component)
    isLoading, error, analysisResult, groundingSources, imageFile, readerPc,
    \* capture conversion applied as a function: a block of samples and its
    \* 16-bit encoding
    pcmIn, pcmOut,
    \* camera capture modal (ImageInput and CameraModal components): each
    \* mount of the modal, its getUserMedia call and its camera track
    isCameraOpen, nMounts, camPc, trackLive, stream, fetches

proxyVars == <<impl, req, pc, calls, upstream, responses, logs>>
stripVars == <<stripIn, stripOut, stripParsed>>
playVars == <<now, nextStartTimeRef, bufStart, bufDur>>
textVars == <<currentInputRef, currentOutputRef, transcriptions, lazyUpdaters, spoken>>
frameVars == <<procCtx, captured, queued, sent>>
relayVars == <<isOpen, status, nStarts, startPc, micLive, session, pendingClose,
               sessionRef, mediaStreamRef, scriptProcessorRef, procConnected,
               ctxRef, ctxClosed, sourcesRef, bufState, closedEarly, closedIdle,
               closeLog, playVars, textVars, frameVars>>
appVars == <<isLoading, error, analysisResult, groundingSources, imageFile, readerPc>>
pcmVars == <<pcmIn, pcmOut>>
cameraVars == <<isCameraOpen, nMounts, camPc, trackLive, stream, fetches>>
vars == <<proxyVars, stripVars, relayVars, appVars, pcmVars, cameraVars>>

\* ------------------------------------------------------- JavaScript values
Undefined == "undefined"
Null == "null"

\* !x for the values a request field takes: undefined, null and "" are falsy
Falsy(v) == v \in {Undefined, Null, ""}

Min(a, b) == IF a < b THEN a ELSE b

\* ------------------------------------------------------------ reply texts
\* the backtick character
BT == "bt"
Fence == <<BT, BT, BT>>
JsonTag == <<"j", "s", "o", "n">>
\* characters matched by \s
WhiteSpace == {" ", "\n"}

RECURSIVE Concat(_)
Concat(ss) == IF ss = <<>> THEN <<>> ELSE Head(ss) \o Concat(Tail(ss))

\* first alternative (start of input, three backticks, json, any whitespace)
\* tried at index 1: number of characters matched, 0 if none
RECURSIVE SpaceRun(_, _)
SpaceRun(s, i) ==
    IF i <= Len(s) /\ s[i] \in WhiteSpace THEN 1 + SpaceRun(s, i + 1) ELSE 0

LeadingFenceLen(s) ==
    IF Len(s) >= 7 /\ SubSeq(s, 1, 7) = Fence \o JsonTag
    THEN 7 + SpaceRun(s, 8)
    ELSE 0

\* second alternative tried at index i: three backticks, then only whitespace
\* up to the end of input
TrailingFenceAt(s, i) ==
    /\ i + 2 <= Len(s)
    /\ SubSeq(s, i, i + 2) = Fence
    /\ \A k \in (i + 3)..Len(s) : s[k] \in WhiteSpace

\* length of the match of the whole pattern starting at index i (0: none);
\* the first alternative is tried first and ^ only matches at the start
MatchLenAt(s, i) ==
    IF i = 1 /\ LeadingFenceLen(s) > 0 THEN LeadingFenceLen(s)
    ELSE IF TrailingFenceAt(s, i) THEN Len(s) - i + 1
    ELSE 0

\* String.prototype.replace with a global regex and the empty replacement:
\* scan left to right, drop every match, resume after it
RECURSIVE ReplaceFrom(_, _)
ReplaceFrom(s, i) ==
    IF i > Len(s) THEN <<>>
    ELSE IF MatchLenAt(s, i) > 0 THEN ReplaceFrom(s, i + MatchLenAt(s, i))
    ELSE <<s[i]>> \o ReplaceFrom(s, i + 1)

\* a stripper that forgets the trailing alternative
cleanJsonStringLeadingOnly(jsonStr) ==
    SubSeq(jsonStr, LeadingFenceLen(jsonStr) + 1, Len(jsonStr))

cleanJsonString(jsonStr) == ReplaceFrom(jsonStr, 1)

\* ------------------------------------------------------------------- JSON
\* member lexemes and the key/value each one denotes; every JavaScript value
\* is written as a record so that values of different kinds can be compared
UndefinedValue == [kind |-> "undefined"]
NullValue == [kind |-> "null"]
Str(x) == [kind |-> "string", value |-> x]
Bool(b) == [kind |-> "boolean", value |-> b]
CureValue == [kind |-> "object",
              products |-> <<[name |-> "Copper fungicide", usage |-> "Spray biweekly"]>>,
              preventativeMeasures |-> "Prune for airflow"]

MemberLexemes == {"\"objectType\":\"leaf\"", "\"objectType\":\"other\"",
                  "\"isHealthy\":true", "\"isHealthy\":false",
                  "\"cure\":{..}", "\"cure\":null"}

MemberKey(m) ==
    IF m \in {"\"objectType\":\"leaf\"", "\"objectType\":\"other\""} THEN "objectType"
    ELSE IF m \in {"\"isHealthy\":true", "\"isHealthy\":false"} THEN "isHealthy"
    ELSE "cure"

MemberValue(m) ==
    CASE m = "\"objectType\":\"leaf\"" -> Str("leaf")
      [] m = "\"objectType\":\"other\"" -> Str("other")
      [] m = "\"isHealthy\":true" -> Bool(TRUE)
      [] m = "\"isHealthy\":false" -> Bool(FALSE)
      [] m = "\"cure\":{..}" -> CureValue
      [] m = "\"cure\":null" -> NullValue

EmptyObject == [kind |-> "object", objectType |-> UndefinedValue,
                isHealthy |-> UndefinedValue, cure |-> UndefinedValue]

SyntaxError == [kind |-> "SyntaxError"]

\* members of an object after the opening brace: member ("," member)* "}"
\* (a later duplicate key overrides an earlier one)
RECURSIVE ParseMembers(_, _, _)
ParseMembers(toks, i, obj) ==
    IF i > Len(toks) \/ toks[i] \notin MemberLexemes THEN SyntaxError
    ELSE LET o == [obj EXCEPT ![MemberKey(toks[i])] = MemberValue(toks[i])]
         IN  IF i + 1 = Len(toks) /\ toks[i + 1] = "}" THEN o
             ELSE IF i + 1 < Len(toks) /\ toks[i + 1] = "," THEN ParseMembers(toks, i + 2, o)
             ELSE SyntaxError

\* JSON.parse: whitespace between tokens is insignificant; the text must be
\* exactly one value (an object or the literal null)
JSONparse(text) ==
    LET toks == SelectSeq(text, LAMBDA c : c \notin WhiteSpace)
    IN  IF toks = <<"null">> THEN NullValue
        ELSE IF Len(toks) < 2 \/ toks[1] # "{" THEN SyntaxError
        ELSE IF Len(toks) = 2 THEN (IF toks[2] = "}" THEN EmptyObject ELSE SyntaxError)
        ELSE ParseMembers(toks, 2, EmptyObject)

\* -------------------------------------------------- the remote service
\* what the remote service writes for an object with the given members
RECURSIVE JoinMembers(_)
JoinMembers(ms) ==
    IF ms = <<>> THEN <<>>
    ELSE IF Len(ms) = 1 THEN <<ms[1]>>
    ELSE <<ms[1], ",">> \o JoinMembers(Tail(ms))

\* the object the remote service means by a member list
MemberOf(ms, key) ==
    LET idx == {i \in DOMAIN ms : MemberKey(ms[i]) = key}
    IN  IF idx = {} THEN UndefinedValue
        ELSE MemberValue(ms[CHOOSE i \in idx : \A j \in idx : j <= i])

ObjectOf(ms) == [kind |-> "object", objectType |-> MemberOf(ms, "objectType"),
                 isHealthy |-> MemberOf(ms, "isHealthy"), cure |-> MemberOf(ms, "cure")]

SeqsUpTo(S, n) == UNION {[1..k -> S] : k \in 0..n}

\* member lists the remote service writes: no member text twice (two members
\* may still carry the same key)
MemberLists == {ms \in SeqsUpTo(MemberLexemes, MaxMembers) :
                   \A i, j \in DOMAIN ms : ms[i] = ms[j] => i = j}

Openers == {<<>>, Fence \o JsonTag \o <<"\n">>, Fence \o <<"\n">>}
Closers == {<<>>, <<"\n">> \o Fence}
\* object: a complete JSON object; truncated: the same text cut off before the
\* closing brace; null: the JSON literal null
BodyKinds == {"object", "truncated", "null"}

BodyText(bodyKind, ms) ==
    CASE bodyKind = "object" -> <<"{">> \o JoinMembers(ms) \o <<"}">>
      [] bodyKind = "truncated" -> <<"{">> \o JoinMembers(ms)
      [] bodyKind = "null" -> <<"null">>

GroundingChunks == {"chunk-a", "chunk-b"}
ChunkLists == SeqsUpTo(GroundingChunks, MaxChunks)

\* a reply of generateContent: response.text and the grounding chunks of the
\* first candidate (hasChunks FALSE: no grounding metadata in the reply)
Replies ==
    {[kind |-> "reply", opener |-> o, bodyKind |-> b, members |-> ms, closer |-> c,
      text |-> o \o BodyText(b, ms) \o c, hasChunks |-> h, chunks |-> cs] :
        o \in Openers, b \in BodyKinds, ms \in MemberLists, c \in Closers,
        h \in BOOLEAN, cs \in ChunkLists}

ValidReplies == {r \in Replies : /\ r.bodyKind = "null" => r.members = <<>>
                                 /\ ~r.hasChunks => r.chunks = <<>>}

\* a rejection of generateContent (network failure, API error)
TransportErrors ==
    {[kind |-> "error", type |-> "TypeError", message |-> "fetch failed"],
     [kind |-> "error", type |-> "ApiError", message |-> "503 Service Unavailable"],
     [kind |-> "error", type |-> "Error", message |-> "socket hang up"]}

NoUpstream == [kind |-> "none"]

\* ------------------------------------------------ requests and responses
FieldValues == {Undefined, "", "data"}
Requests == [base64Image : FieldValues, mimeType : FieldValues, language : FieldValues]
\* arguments App.handleAnalyze passes to the service: File.type may be ""
ServiceRequests == {r \in Requests : r.base64Image = "data" /\ r.language = "data"
                                     /\ r.mimeType # Undefined}
NoRequest == [base64Image |-> Undefined, mimeType |-> Undefined, language |-> Undefined]

\* res.status(status).json({error, message, type})
ErrorResponse(code, title, message, type) ==
    [kind |-> "http", status |-> code, error |-> title, message |-> message,
     type |-> type, result |-> UndefinedValue, sources |-> <<>>]
\* res.json({result, sources})
SuccessResponse(result, sources) ==
    [kind |-> "http", status |-> 200, error |-> Undefined, message |-> Undefined,
     type |-> Undefined, result |-> result, sources |-> sources]
\* the service returns {result, sources} to its caller
Returned(result, sources) ==
    [kind |-> "return", status |-> 0, error |-> Undefined, message |-> Undefined,
     type |-> Undefined, result |-> result, sources |-> sources]
\* the service's promise rejects with an Error
Thrown(message, type) ==
    [kind |-> "throw", status |-> 0, error |-> Undefined, message |-> message,
     type |-> type, result |-> UndefinedValue, sources |-> <<>>]

LogEntry(tag, text) == [tag |-> tag, text |-> text]

RawLogLimit == 200
\* parseError.message, and the message of the Error thrown in its place
SyntaxErrorMessage == "Unexpected token in JSON"
ParseFailureMessage == "JSON parsing failed: Unexpected token in JSON"

\* response.candidates?.[0]?.groundingMetadata?.groundingChunks || []
GroundingChunksDropped(up) == <<>>

GroundingChunksOrEmpty(up) == IF up.hasChunks THEN up.chunks ELSE <<>>

\* ---------------------------------- enhanced server (POST /api/analyze-image)
\* validation that forgets the language field
EnhancedMissingFieldsNoLanguage(r) == Falsy(r.base64Image) \/ Falsy(r.mimeType)

EnhancedMissingFields(r) ==
    Falsy(r.base64Image) \/ Falsy(r.mimeType) \/ Falsy(r.language)

EnhancedPost(r) ==
    /\ pc = "idle"
    /\ impl' = "enhanced"
    /\ req' = r
    /\ IF EnhancedMissingFields(r)
       THEN /\ responses' = Append(responses,
                   ErrorResponse(400, "Missing required fields: base64Image, mimeType, or language",
                                 Undefined, Undefined))
            /\ logs' = logs \cup {LogEntry("Missing required fields", <<>>)}
            /\ pc' = "done"
            /\ calls' = calls
       ELSE /\ calls' = calls + 1
            /\ pc' = "awaiting"
            /\ UNCHANGED <<responses, logs>>
    /\ UNCHANGED <<upstream, stripVars, relayVars, appVars, pcmVars, cameraVars>>

\* the outer catch: one 500 response whatever was thrown in the try block
EnhancedCatch(message, type) == ErrorResponse(500, "Failed to analyze image", message, type)

\* generateContent resolved: strip, parse, attach sources, answer
EnhancedOnReply ==
    /\ pc = "awaiting" /\ impl = "enhanced"
    /\ \E up \in ValidReplies :
         /\ upstream' = up
         /\ LET cleanedJson == cleanJsonString(up.text)
                 result == JSONparse(cleanedJson)
                 sources == GroundingChunksOrEmpty(up)
            IN  CASE result.kind = "SyntaxError" ->
                       /\ logs' = logs \cup {LogEntry("Failed to parse JSON response", <<>>),
                                             LogEntry("Raw response",
                                                      SubSeq(up.text, 1, Min(Len(up.text), RawLogLimit)))}
                       /\ responses' = Append(responses,
                              EnhancedCatch(ParseFailureMessage, "Error"))
                  [] result.kind = "null" ->
                       \* result.diseaseName on null throws a TypeError
                       /\ logs' = logs \cup {LogEntry("Error during image analysis", <<>>)}
                       /\ responses' = Append(responses,
                              EnhancedCatch("Cannot read properties of null", "TypeError"))
                  [] OTHER ->
                       /\ logs' = logs \cup {LogEntry("Analysis complete", <<>>)}
                       /\ responses' = Append(responses, SuccessResponse(result, sources))
    /\ pc' = "done"
    /\ UNCHANGED <<impl, req, calls, stripVars, relayVars, appVars, pcmVars, cameraVars>>

\* a handler that calls the remote service again when the call fails
EnhancedOnRejectRetry(err) ==
    /\ pc = "awaiting" /\ impl = "enhanced"
    /\ upstream' = err
    /\ IF calls < 2
       THEN /\ calls' = calls + 1
            /\ UNCHANGED <<pc, responses, logs>>
       ELSE /\ logs' = logs \cup {LogEntry("Error during image analysis", <<>>)}
            /\ responses' = Append(responses, EnhancedCatch(err.message, err.type))
            /\ pc' = "done"
            /\ calls' = calls
    /\ UNCHANGED <<impl, req, stripVars, relayVars, appVars, pcmVars, cameraVars>>

\* generateContent rejected: the outer catch answers
EnhancedOnReject(err) ==
    /\ pc = "awaiting" /\ impl = "enhanced"
    /\ upstream' = err
    /\ logs' = logs \cup {LogEntry("Error during image analysis", <<>>)}
    /\ responses' = Append(responses, EnhancedCatch(err.message, err.type))
    /\ pc' = "done"
    /\ UNCHANGED <<impl, req, calls, stripVars, relayVars, appVars, pcmVars, cameraVars>>

\* ------------------------------------- basic server (POST /api/analyze-image)
BasicMissingFields(r) ==
    Falsy(r.base64Image) \/ Falsy(r.mimeType) \/ Falsy(r.language)

BasicPost(r) ==
    /\ pc = "idle"
    /\ impl' = "basic"
    /\ req' = r
    /\ IF BasicMissingFields(r)
       THEN /\ responses' = Append(responses,
                   ErrorResponse(400, "Missing required fields: base64Image, mimeType, or language",
                                 Undefined, Undefined))
            /\ pc' = "done"
            /\ calls' = calls
       ELSE /\ calls' = calls + 1
            /\ pc' = "awaiting"
            /\ UNCHANGED responses
    /\ UNCHANGED <<upstream, logs, stripVars, relayVars, appVars, pcmVars, cameraVars>>

BasicCatch(message) == ErrorResponse(500, "Failed to analyze image", message, Undefined)

BasicOnReply ==
    /\ pc = "awaiting" /\ impl = "basic"
    /\ \E up \in ValidReplies :
         /\ upstream' = up
         /\ LET cleanedJson == cleanJsonString(up.text)
                 result == JSONparse(cleanedJson)
                 sources == GroundingChunksOrEmpty(up)
            IN  IF result.kind = "SyntaxError"
                THEN /\ logs' = logs \cup {LogEntry("Error analyzing image", <<>>)}
                     /\ responses' = Append(responses, BasicCatch(SyntaxErrorMessage))
                ELSE /\ responses' = Append(responses, SuccessResponse(result, sources))
                     /\ UNCHANGED logs
    /\ pc' = "done"
    /\ UNCHANGED <<impl, req, calls, stripVars, relayVars, appVars, pcmVars, cameraVars>>

BasicOnReject(err) ==
    /\ pc = "awaiting" /\ impl = "basic"
    /\ upstream' = err
    /\ logs' = logs \cup {LogEntry("Error analyzing image", <<>>)}
    /\ responses' = Append(responses, BasicCatch(err.message))
    /\ pc' = "done"
    /\ UNCHANGED <<impl, req, calls, stripVars, relayVars, appVars, pcmVars, cameraVars>>

\* ------------------------------ browser-side service (analyzeImageWithGemini)
\* no validation: the call is made with whatever arguments it is given
ServiceCall(r) ==
    /\ pc = "idle"
    /\ impl' = "service"
    /\ req' = r
    /\ calls' = calls + 1
    /\ pc' = "awaiting"
    /\ UNCHANGED <<upstream, responses, logs, stripVars, relayVars, appVars, pcmVars, cameraVars>>

ServiceOnReply ==
    /\ pc = "awaiting" /\ impl = "service"
    /\ \E up \in ValidReplies :
         /\ upstream' = up
         /\ LET cleanedJson == cleanJsonString(up.text)
                 result == JSONparse(cleanedJson)
                 sources == GroundingChunksOrEmpty(up)
            IN  IF result.kind = "SyntaxError"
                THEN /\ logs' = logs \cup {LogEntry("Failed to parse Gemini response", <<>>),
                                           LogEntry("Raw response text", up.text)}
                     /\ responses' = Append(responses,
                            Thrown("Failed to parse AI response. The format was invalid.", "Error"))
                ELSE /\ responses' = Append(responses, Returned(result, sources))
                     /\ UNCHANGED logs
    /\ pc' = "done"
    /\ UNCHANGED <<impl, req, calls, stripVars, relayVars, appVars, pcmVars, cameraVars>>

\* the await is outside the try block: the rejection goes to the caller as is
ServiceOnReject(err) ==
    /\ pc = "awaiting" /\ impl = "service"
    /\ upstream' = err
    /\ responses' = Append(responses, Thrown(err.message, err.type))
    /\ pc' = "done"
    /\ UNCHANGED <<impl, req, calls, logs, stripVars, relayVars, appVars, pcmVars, cameraVars>>

ProxyInit ==
    /\ impl = "none"
    /\ req = NoRequest
    /\ pc = "idle"
    /\ calls = 0
    /\ upstream = NoUpstream
    /\ responses = <<>>
    /\ logs = {}

\* ------------------------------------------------ fence stripping, applied
Pieces == {Fence, JsonTag, <<" ">>, <<"\n">>, <<"{", "}">>}
StripInputs == {Concat(ps) : ps \in SeqsUpTo(Pieces, MaxPieces)}
NotParsed == [kind |-> "none"]

\* cleanJsonString applied to the text, then to its own result
Strip ==
    /\ Len(stripOut) < 2
    /\ stripOut' = Append(stripOut,
           cleanJsonString(IF stripOut = <<>> THEN stripIn ELSE stripOut[Len(stripOut)]))
    /\ UNCHANGED <<stripIn, stripParsed, proxyVars, relayVars, appVars, pcmVars, cameraVars>>

\* JSON.parse of the text stripped once
ParseStripped ==
    /\ Len(stripOut) >= 1
    /\ stripParsed = NotParsed
    /\ stripParsed' = JSONparse(stripOut[1])
    /\ UNCHANGED <<stripIn, stripOut, proxyVars, relayVars, appVars, pcmVars, cameraVars>>

StripIdle ==
    /\ stripIn = <<>>
    /\ stripOut = <<>>
    /\ stripParsed = NotParsed

StripInit ==
    /\ stripIn \in StripInputs
    /\ stripOut = <<>>
    /\ stripParsed = NotParsed

\* ------------------------------------------------ live audio relay (Chatbot)
Attempts == 1..MaxStarts
Buffers == 1..MaxBuffers

Max(a, b) == IF a > b THEN a ELSE b

\* (mutant) stopSession that closes the session but keeps it in sessionRef
StopSessionKeepingRef(sess, pend) ==
    /\ session' = IF sessionRef # 0 THEN [sess EXCEPT ![sessionRef] = "closed"] ELSE sess
    /\ pendingClose' = IF sessionRef # 0 /\ sess[sessionRef] = "open"
                       THEN [pend EXCEPT ![sessionRef] = TRUE] ELSE pend
    /\ UNCHANGED sessionRef
    /\ micLive' = IF mediaStreamRef # 0 THEN [micLive EXCEPT ![mediaStreamRef] = FALSE]
                  ELSE micLive
    /\ mediaStreamRef' = 0
    /\ procConnected' = IF scriptProcessorRef # 0
                        THEN [procConnected EXCEPT ![scriptProcessorRef] = FALSE]
                        ELSE procConnected
    /\ procCtx' = IF scriptProcessorRef # 0 THEN [procCtx EXCEPT ![scriptProcessorRef] = 0]
                  ELSE procCtx
    /\ scriptProcessorRef' = 0
    /\ ctxClosed' = IF ctxRef # 0 THEN [ctxClosed EXCEPT ![ctxRef] = TRUE] ELSE ctxClosed
    /\ bufState' = [b \in Buffers |-> IF b \in sourcesRef THEN "stopped" ELSE bufState[b]]
    /\ sourcesRef' = {}
    /\ nextStartTimeRef' = 0
    /\ status' = "idle"

\* stopSession, run on the given session states: close the session the ref
\* holds, stop the tracks of the stream the ref holds, disconnect the script
\* processor (which context a disconnected processor lived on is no longer
\* recorded), close the audio contexts, stop and forget every tracked source,
\* reset the playback cursor, setStatus('idle')
StopSessionFrom(sess, pend) ==
    /\ session' = IF sessionRef # 0 THEN [sess EXCEPT ![sessionRef] = "closed"] ELSE sess
    /\ pendingClose' = IF sessionRef # 0 /\ sess[sessionRef] = "open"
                       THEN [pend EXCEPT ![sessionRef] = TRUE] ELSE pend
    /\ sessionRef' = 0
    /\ micLive' = IF mediaStreamRef # 0 THEN [micLive EXCEPT ![mediaStreamRef] = FALSE]
                  ELSE micLive
    /\ mediaStreamRef' = 0
    /\ procConnected' = IF scriptProcessorRef # 0
                        THEN [procConnected EXCEPT ![scriptProcessorRef] = FALSE]
                        ELSE procConnected
    /\ procCtx' = IF scriptProcessorRef # 0 THEN [procCtx EXCEPT ![scriptProcessorRef] = 0]
                  ELSE procCtx
    /\ scriptProcessorRef' = 0
    /\ ctxClosed' = IF ctxRef # 0 THEN [ctxClosed EXCEPT ![ctxRef] = TRUE] ELSE ctxClosed
    /\ bufState' = [b \in Buffers |-> IF b \in sourcesRef THEN "stopped" ELSE bufState[b]]
    /\ sourcesRef' = {}
    /\ nextStartTimeRef' = 0
    /\ status' = "idle"

stopSession == StopSessionFrom(session, pendingClose)

\* what stopSession leaves behind: status idle, every ref null, no tracked
\* source, the playback cursor at 0, the audio contexts closed
TornDown ==
    /\ status = "idle"
    /\ sessionRef = 0
    /\ mediaStreamRef = 0
    /\ scriptProcessorRef = 0
    /\ sourcesRef = {}
    /\ nextStartTimeRef = 0
    /\ ctxRef # 0 => ctxClosed[ctxRef]

\* (mutant) startSession that shows connected at once
startSessionOptimistic ==
    IF status # "idle"
    THEN UNCHANGED <<status, nStarts, startPc, textVars>>
    ELSE /\ status' = "connected"
         /\ nStarts' = nStarts + 1
         /\ startPc' = [startPc EXCEPT ![nStarts + 1] = "awaitMic"]
         /\ transcriptions' = <<>>
         /\ lazyUpdaters' = 0
         /\ currentInputRef' = <<>>
         /\ currentOutputRef' = <<>>
         /\ spoken' = <<>>

\* startSession up to its first await
startSession ==
    IF status # "idle"
    THEN UNCHANGED <<status, nStarts, startPc, textVars>>
    ELSE /\ status' = "connecting"
         /\ nStarts' = nStarts + 1
         /\ startPc' = [startPc EXCEPT ![nStarts + 1] = "awaitMic"]
         /\ transcriptions' = <<>>
         /\ lazyUpdaters' = 0
         /\ currentInputRef' = <<>>
         /\ currentOutputRef' = <<>>
         /\ spoken' = <<>>

\* useEffect on isOpen, panel opened
OpenPanel ==
    /\ ~isOpen
    /\ status = "idle" => nStarts < MaxStarts
    /\ isOpen' = TRUE
    /\ closedEarly' = FALSE
    /\ closedIdle' = FALSE
    /\ closeLog' = <<>>
    /\ startSession
    /\ UNCHANGED <<micLive, session, pendingClose, sessionRef, mediaStreamRef,
                   scriptProcessorRef, procConnected, ctxRef, ctxClosed, sourcesRef,
                   bufState, playVars, frameVars, proxyVars, stripVars, appVars,
                   pcmVars, cameraVars>>

\* useEffect on isOpen, panel closed
ClosePanel ==
    /\ isOpen
    /\ isOpen' = FALSE
    /\ closedEarly' = (status = "connecting")
    /\ closedIdle' = TornDown
    /\ stopSession
    /\ UNCHANGED <<nStarts, startPc, ctxRef, closeLog, now, bufStart, bufDur, textVars,
                   captured, queued, sent, proxyVars, stripVars, appVars,
                   pcmVars, cameraVars>>

\* the release steps of stopSession, in the order of its statements
StopSteps == <<"session", "mic", "processor", "contexts", "sources">>

\* the condition under which stopSession runs the release step
Runs(step) ==
    CASE step = "session" -> sessionRef # 0
      [] step = "mic" -> mediaStreamRef # 0
      [] step = "processor" -> scriptProcessorRef # 0
      [] step = "contexts" -> ctxRef # 0 /\ ~ctxClosed[ctxRef]
      [] step = "sources" -> sourcesRef # {}

\* stopSession has no try block: when the call of release step number
\* failing throws, the steps before it have run and nothing after the call
\* runs (nothing throws when failing is past the last step)
NoFailure == Len(StopSteps) + 1

stopSessionFailingAt(failing) ==
    /\ session' = IF failing > 1 /\ sessionRef # 0
                  THEN [session EXCEPT ![sessionRef] = "closed"] ELSE session
    /\ pendingClose' = IF failing > 1 /\ sessionRef # 0 /\ session[sessionRef] = "open"
                       THEN [pendingClose EXCEPT ![sessionRef] = TRUE] ELSE pendingClose
    /\ sessionRef' = IF failing > 1 THEN 0 ELSE sessionRef
    /\ micLive' = IF failing > 2 /\ mediaStreamRef # 0
                  THEN [micLive EXCEPT ![mediaStreamRef] = FALSE] ELSE micLive
    /\ mediaStreamRef' = IF failing > 2 THEN 0 ELSE mediaStreamRef
    /\ procConnected' = IF failing > 3 /\ scriptProcessorRef # 0
                        THEN [procConnected EXCEPT ![scriptProcessorRef] = FALSE]
                        ELSE procConnected
    /\ procCtx' = IF failing > 3 /\ scriptProcessorRef # 0
                  THEN [procCtx EXCEPT ![scriptProcessorRef] = 0] ELSE procCtx
    /\ scriptProcessorRef' = IF failing > 3 THEN 0 ELSE scriptProcessorRef
    /\ ctxClosed' = IF failing > 4 /\ ctxRef # 0 THEN [ctxClosed EXCEPT ![ctxRef] = TRUE]
                    ELSE ctxClosed
    /\ bufState' = [b \in Buffers |-> IF failing > 5 /\ b \in sourcesRef THEN "stopped"
                                      ELSE bufState[b]]
    /\ sourcesRef' = IF failing > 5 THEN {} ELSE sourcesRef
    /\ nextStartTimeRef' = IF failing > 5 THEN 0 ELSE nextStartTimeRef
    /\ status' = IF failing > 5 THEN "idle" ELSE status

\* the release steps a stopSession failing at that step attempts, in order,
\* and the throw that ends it
Attempted(failing) ==
    SelectSeq(SubSeq(StopSteps, 1, Min(failing, Len(StopSteps))), Runs)
        \o (IF failing = NoFailure THEN <<>> ELSE <<"throw">>)

\* the last explicit close ended in a throw: the error leaves the effect and
\* React unmounts the tree (the application has no error boundary)
Aborted == closeLog # <<>> /\ closeLog[Len(closeLog)] = "throw"

\* useEffect on isOpen, panel closed, with the release step whose call throws
ClosePanelFailingAt(failing) ==
    /\ isOpen
    /\ failing # NoFailure => Runs(StopSteps[failing])
    /\ isOpen' = FALSE
    /\ closedEarly' = (status = "connecting")
    /\ closedIdle' = TornDown
    /\ closeLog' = Attempted(failing)
    /\ stopSessionFailingAt(failing)
    /\ UNCHANGED <<nStarts, startPc, ctxRef, now, bufStart, bufDur, textVars,
                   captured, queued, sent, proxyVars, stripVars, appVars,
                   pcmVars, cameraVars>>

\* getUserMedia resolved: keep the stream, create both audio contexts, connect
MicGranted(a) ==
    /\ startPc[a] = "awaitMic"
    /\ micLive' = [micLive EXCEPT ![a] = TRUE]
    /\ mediaStreamRef' = a
    /\ ctxRef' = a
    /\ ctxClosed' = [ctxClosed EXCEPT ![a] = FALSE]
    /\ session' = [session EXCEPT ![a] = "connecting"]
    /\ startPc' = [startPc EXCEPT ![a] = "awaitSession"]
    /\ UNCHANGED <<isOpen, status, nStarts, pendingClose, sessionRef, scriptProcessorRef,
                   procConnected, sourcesRef, bufState, closedEarly, closedIdle, closeLog, playVars,
                   textVars, frameVars, proxyVars, stripVars, appVars, pcmVars, cameraVars>>

\* (mutant) getUserMedia rejected and the rejection is swallowed: no catch
\* block sets the status
MicDeniedSwallowed(a) ==
    /\ startPc[a] = "awaitMic"
    /\ startPc' = [startPc EXCEPT ![a] = "failed"]
    /\ UNCHANGED <<isOpen, status, nStarts, micLive, session, pendingClose, sessionRef,
                   mediaStreamRef, scriptProcessorRef, procConnected, ctxRef, ctxClosed,
                   sourcesRef, bufState, closedEarly, closedIdle, closeLog, playVars, textVars,
                   frameVars, proxyVars, stripVars, appVars, pcmVars, cameraVars>>

\* getUserMedia rejected: the catch block
MicDenied(a) ==
    /\ startPc[a] = "awaitMic"
    /\ status' = "error"
    /\ startPc' = [startPc EXCEPT ![a] = "failed"]
    /\ UNCHANGED <<isOpen, nStarts, micLive, session, pendingClose, sessionRef,
                   mediaStreamRef, scriptProcessorRef, procConnected, ctxRef, ctxClosed,
                   sourcesRef, bufState, closedEarly, closedIdle, closeLog, playVars, textVars,
                   frameVars, proxyVars, stripVars, appVars, pcmVars, cameraVars>>

\* onopen of attempt a: wire the capture graph on the current input context.
\* createMediaStreamSource on a context that was closed meanwhile may throw
\* (browser dependent); then the rest of the callback does not run.
OnOpen(a) ==
    /\ session[a] = "connecting"
    /\ session' = [session EXCEPT ![a] = "open"]
    /\ \E throws \in {t \in BOOLEAN : t => ctxClosed[ctxRef]} :
         IF throws
         THEN UNCHANGED <<scriptProcessorRef, procConnected, procCtx, status>>
         ELSE /\ scriptProcessorRef' = a
              /\ procConnected' = [procConnected EXCEPT ![a] = TRUE]
              /\ procCtx' = [procCtx EXCEPT ![a] = ctxRef]
              /\ status' = "connected"
    /\ UNCHANGED <<isOpen, nStarts, startPc, micLive, pendingClose, sessionRef,
                   mediaStreamRef, ctxRef, ctxClosed, sourcesRef, bufState, closedEarly,
                   closedIdle, closeLog, playVars, textVars, captured, queued, sent,
                   proxyVars, stripVars, appVars, pcmVars, cameraVars>>

\* (mutant) the frames of session a, the newest block first
FramesNewestFirst(a, blocks) ==
    [i \in 1..Len(blocks) |-> <<a, blocks[Len(blocks) + 1 - i]>>]

\* the frames of session a, in the given order of blocks
FramesOf(a, blocks) == [i \in 1..Len(blocks) |-> <<a, blocks[i]>>]

\* sessionPromise resolved: sessionRef.current = await sessionPromise, then the
\* then-callbacks that onaudioprocess registered meanwhile run in the order of
\* registration; sendRealtimeInput on a session that is closed sends nothing
SessionResolved(a) ==
    /\ startPc[a] = "awaitSession"
    /\ session[a] \in {"open", "closed"}
    /\ sessionRef' = a
    /\ startPc' = [startPc EXCEPT ![a] = "done"]
    /\ sent' = IF session[a] = "open" THEN sent \o FramesOf(a, queued[a]) ELSE sent
    /\ queued' = [queued EXCEPT ![a] = <<>>]
    /\ UNCHANGED <<isOpen, status, nStarts, micLive, session, pendingClose, mediaStreamRef,
                   scriptProcessorRef, procConnected, ctxRef, ctxClosed, sourcesRef,
                   bufState, closedEarly, closedIdle, closeLog, playVars, textVars, procCtx,
                   captured, proxyVars, stripVars, appVars, pcmVars, cameraVars>>

\* ai.live.connect rejected: the catch block; then-callbacks registered on the
\* promise never run
SessionRejected(a) ==
    /\ startPc[a] = "awaitSession"
    /\ session[a] = "connecting"
    /\ session' = [session EXCEPT ![a] = "closed"]
    /\ status' = "error"
    /\ startPc' = [startPc EXCEPT ![a] = "failed"]
    /\ queued' = [queued EXCEPT ![a] = <<>>]
    /\ UNCHANGED <<isOpen, nStarts, micLive, pendingClose, sessionRef, mediaStreamRef,
                   scriptProcessorRef, procConnected, ctxRef, ctxClosed, sourcesRef,
                   bufState, closedEarly, closedIdle, closeLog, playVars, textVars, procCtx,
                   captured, sent, proxyVars, stripVars, appVars, pcmVars, cameraVars>>

\* onaudioprocess of the script processor of attempt a: one captured block
\* (numbered in capture order) becomes one frame, handed to
\* sessionPromise.then: sent at once when the promise has resolved, queued
\* while it is pending
AudioProcess(a) ==
    /\ procConnected[a]
    /\ ~ctxClosed[procCtx[a]]
    /\ captured < MaxFrames
    /\ captured' = captured + 1
    /\ IF startPc[a] = "awaitSession"
       THEN /\ queued' = [queued EXCEPT ![a] = Append(@, captured + 1)]
            /\ UNCHANGED sent
       ELSE /\ sent' = IF session[a] = "open" THEN Append(sent, <<a, captured + 1>>)
                       ELSE sent
            /\ UNCHANGED queued
    /\ UNCHANGED <<isOpen, status, nStarts, startPc, micLive, session, pendingClose,
                   sessionRef, mediaStreamRef, scriptProcessorRef, procConnected, ctxRef,
                   ctxClosed, sourcesRef, bufState, closedEarly, closedIdle, closeLog, playVars,
                   textVars, procCtx, proxyVars, stripVars, appVars, pcmVars, cameraVars>>

\* ----------------------------------------------------------- inbound messages
\* String.prototype.trim on a text of characters
RECURSIVE trimStart(_)
trimStart(s) == IF s # <<>> /\ Head(s) \in WhiteSpace THEN trimStart(Tail(s)) ELSE s

RECURSIVE trimEnd(_)
trimEnd(s) ==
    IF s # <<>> /\ s[Len(s)] \in WhiteSpace THEN trimEnd(SubSeq(s, 1, Len(s) - 1)) ELSE s

trim(s) == trimEnd(trimStart(s))

\* (mutant) the updater pushes the user's turn a second time after the
\* assistant's
PushedTurnsUserTwice(inp, out) ==
    (IF trim(inp) # <<>> THEN <<[author |-> "user", text |-> trim(inp)]>> ELSE <<>>)
    \o (IF trim(out) # <<>> THEN <<[author |-> "assistant", text |-> trim(out)]>> ELSE <<>>)
    \o (IF trim(inp) # <<>> THEN <<[author |-> "user", text |-> trim(inp)]>> ELSE <<>>)

\* the updater passed to setTranscriptions, run on the given accumulator values
PushedTurns(inp, out) ==
    (IF trim(inp) # <<>> THEN <<[author |-> "user", text |-> trim(inp)]>> ELSE <<>>)
    \o (IF trim(out) # <<>> THEN <<[author |-> "assistant", text |-> trim(out)]>> ELSE <<>>)

RECURSIVE Repeat(_, _)
Repeat(s, n) == IF n = 0 THEN <<>> ELSE s \o Repeat(s, n - 1)

\* a LiveServerMessage: transcription fragments (the empty text when absent),
\* turnComplete, the duration of the audio part (0 when absent), interrupted
Message(i, o, t, d, x) ==
    [input |-> i, output |-> o, turnComplete |-> t, audio |-> d, interrupted |-> x]

InputFragments == {<<"u">>, <<" ">>}
OutputFragments == {<<"m">>, <<" ">>}
Durations == 1..MaxDuration

\* messages about playback: an audio part, interrupted, or both
PlaybackMessages ==
    {Message(<<>>, <<>>, FALSE, d, x) : d \in 0..MaxDuration, x \in BOOLEAN}
        \ {Message(<<>>, <<>>, FALSE, 0, FALSE)}

\* the interrupted signal alone
InterruptedSignal == Message(<<>>, <<>>, FALSE, 0, TRUE)

\* messages around an interruption: a fragment of the assistant's speech, a
\* turn completion, an audio part, the interrupted signal alone and with an
\* audio part
InterruptMessages ==
    {Message(<<>>, <<"m">>, FALSE, 0, FALSE), Message(<<>>, <<>>, TRUE, 0, FALSE),
     Message(<<>>, <<>>, FALSE, 1, FALSE), InterruptedSignal,
     Message(<<>>, <<>>, FALSE, 1, TRUE)}

\* messages that change the tracked sources: an audio part, the interrupted
\* signal alone and with an audio part
TrackingMessages ==
    {Message(<<>>, <<>>, FALSE, 1, FALSE), InterruptedSignal,
     Message(<<>>, <<>>, FALSE, 1, TRUE)}

\* messages about the transcript: fragments and turnComplete
TranscriptMessages ==
    {Message(i, o, t, 0, FALSE) :
        i \in InputFragments \cup {<<>>}, o \in OutputFragments \cup {<<>>}, t \in BOOLEAN}
        \ {Message(<<>>, <<>>, FALSE, 0, FALSE)}

\* the source node the next audio part creates (nodes are numbered in order of
\* creation)
NextBuffer == CHOOSE b \in Buffers : bufState[b] = "unused" /\ \A x \in 1..(b - 1) : bufState[x] # "unused"

\* (mutant) the audio part is started at the clock's current time, whatever
\* the cursor says
ScheduledStartNow == now

\* nextStartTimeRef.current = Math.max(nextStartTimeRef.current, currentTime)
ScheduledStart == Max(nextStartTimeRef, now)

\* (mutant) interrupted leaves the cursor where it is
CursorKeptOnInterrupt(cursor) == cursor

\* nextStartTimeRef.current = 0 in the interrupted branch
CursorOnInterrupt(cursor) == 0

\* (mutant) interrupted stops the sources but keeps tracking them
TrackedKeptOnInterrupt(tracked) == tracked

\* sourcesRef.current.clear() in the interrupted branch
TrackedOnInterrupt(tracked) == {}

\* onmessage of session a, the whole handler in its order: accumulate the
\* transcription fragments; on turnComplete hand the updater to
\* setTranscriptions and clear the accumulators; schedule the audio part at
\* the cursor and track its source; on interrupted stop and forget every
\* tracked source and reset the cursor.  React runs the updater at once when
\* the component has no update pending (eager), otherwise at the next render.
OnMessage(a, msg) ==
    /\ session[a] = "open"
    /\ msg.audio > 0 => \E b \in Buffers : bufState[b] = "unused"
    /\ Len(currentInputRef \o msg.input) <= MaxText
    /\ Len(currentOutputRef \o msg.output) <= MaxText
    /\ msg.turnComplete => Len(spoken) < MaxTurns /\ Len(transcriptions) < MaxTurns
    /\ LET inp == currentInputRef \o msg.input
           out == currentOutputRef \o msg.output
           scheduled == IF msg.audio > 0 THEN {NextBuffer} ELSE {}
           tracked == sourcesRef \cup scheduled
       IN  /\ IF msg.turnComplete
              THEN /\ \E eager \in {e \in BOOLEAN : (e => lazyUpdaters = 0)
                                                  /\ (~e => lazyUpdaters < MaxTurns)} :
                        IF eager
                        THEN /\ transcriptions' = transcriptions \o PushedTurns(inp, out)
                             /\ UNCHANGED lazyUpdaters
                        ELSE /\ lazyUpdaters' = lazyUpdaters + 1
                             /\ UNCHANGED transcriptions
                   /\ currentInputRef' = <<>>
                   /\ currentOutputRef' = <<>>
                   /\ spoken' = spoken \o PushedTurns(inp, out)
              ELSE /\ currentInputRef' = inp
                   /\ currentOutputRef' = out
                   /\ UNCHANGED <<transcriptions, lazyUpdaters, spoken>>
           /\ bufStart' = [b \in Buffers |-> IF b \in scheduled THEN ScheduledStart
                                             ELSE bufStart[b]]
           /\ bufDur' = [b \in Buffers |-> IF b \in scheduled THEN msg.audio ELSE bufDur[b]]
           /\ bufState' = [b \in Buffers |->
                              IF msg.interrupted /\ b \in tracked THEN "stopped"
                              ELSE IF b \in scheduled THEN "scheduled" ELSE bufState[b]]
           /\ sourcesRef' = IF msg.interrupted THEN TrackedOnInterrupt(tracked) ELSE tracked
           /\ nextStartTimeRef' =
                  LET cursor == IF msg.audio > 0 THEN ScheduledStart + msg.audio
                                ELSE nextStartTimeRef
                  IN  IF msg.interrupted THEN CursorOnInterrupt(cursor) ELSE cursor
    /\ UNCHANGED <<isOpen, status, nStarts, startPc, micLive, session, pendingClose,
                   sessionRef, mediaStreamRef, scriptProcessorRef, procConnected, ctxRef,
                   ctxClosed, closedEarly, closedIdle, closeLog, now, frameVars,
                   proxyVars, stripVars, appVars, pcmVars, cameraVars>>

\* React renders the component: the queued updaters run now, on the values
\* the accumulators hold now
Render ==
    /\ lazyUpdaters > 0
    /\ transcriptions' = transcriptions
           \o Repeat(PushedTurns(currentInputRef, currentOutputRef), lazyUpdaters)
    /\ lazyUpdaters' = 0
    /\ UNCHANGED <<currentInputRef, currentOutputRef, spoken>>
    /\ UNCHANGED <<isOpen, status, nStarts, startPc, micLive, session, pendingClose,
                   sessionRef, mediaStreamRef, scriptProcessorRef, procConnected, ctxRef,
                   ctxClosed, sourcesRef, bufState, closedEarly, closedIdle, closeLog, playVars,
                   frameVars, proxyVars, stripVars, appVars, pcmVars, cameraVars>>

\* the playback clock (outputAudioContext.currentTime) advances
Tick ==
    /\ now < MaxTime
    /\ now' = now + 1
    /\ UNCHANGED <<nextStartTimeRef, bufStart, bufDur>>
    /\ UNCHANGED <<isOpen, status, nStarts, startPc, micLive, session, pendingClose,
                   sessionRef, mediaStreamRef, scriptProcessorRef, procConnected, ctxRef,
                   ctxClosed, sourcesRef, bufState, closedEarly, closedIdle, closeLog, textVars,
                   frameVars, proxyVars, stripVars, appVars, pcmVars, cameraVars>>

\* (mutant) a source that has played to its end stays in the tracked set: no
\* 'ended' listener
OnEndedStillTracked(b) ==
    /\ bufState[b] = "scheduled"
    /\ now >= bufStart[b] + bufDur[b]
    /\ bufState' = [bufState EXCEPT ![b] = "ended"]
    /\ UNCHANGED sourcesRef
    /\ UNCHANGED <<isOpen, status, nStarts, startPc, micLive, session, pendingClose,
                   sessionRef, mediaStreamRef, scriptProcessorRef, procConnected, ctxRef,
                   ctxClosed, closedEarly, closedIdle, closeLog, playVars, textVars,
                   frameVars, proxyVars, stripVars, appVars, pcmVars, cameraVars>>

\* 'ended' listener of a source that has played to its end
OnEnded(b) ==
    /\ bufState[b] = "scheduled"
    /\ now >= bufStart[b] + bufDur[b]
    /\ bufState' = [bufState EXCEPT ![b] = "ended"]
    /\ sourcesRef' = sourcesRef \ {b}
    /\ UNCHANGED <<isOpen, status, nStarts, startPc, micLive, session, pendingClose,
                   sessionRef, mediaStreamRef, scriptProcessorRef, procConnected, ctxRef,
                   ctxClosed, closedEarly, closedIdle, closeLog, playVars, textVars, frameVars,
                   proxyVars, stripVars, appVars, pcmVars, cameraVars>>

\* onerror of session a (the transport failed; its close event follows):
\* setStatus('error'), then stopSession(), whose last step is setStatus('idle')
OnError(a) ==
    /\ session[a] = "open"
    /\ StopSessionFrom([session EXCEPT ![a] = "closed"], [pendingClose EXCEPT ![a] = TRUE])
    /\ UNCHANGED <<isOpen, nStarts, startPc, ctxRef, closedEarly, closedIdle, closeLog, now, bufStart,
                   bufDur, textVars, captured, queued, sent, proxyVars, stripVars, appVars,
                   pcmVars, cameraVars>>

\* onclose of session a (closed by the remote end, or after close())
OnClose(a) ==
    /\ session[a] = "open" \/ pendingClose[a]
    /\ StopSessionFrom([session EXCEPT ![a] = "closed"], [pendingClose EXCEPT ![a] = FALSE])
    /\ UNCHANGED <<isOpen, nStarts, startPc, ctxRef, closedEarly, closedIdle, closeLog, now, bufStart,
                   bufDur, textVars, captured, queued, sent, proxyVars, stripVars, appVars,
                   pcmVars, cameraVars>>

RelayInit ==
    /\ isOpen = FALSE
    /\ status = "idle"
    /\ nStarts = 0
    /\ startPc = [a \in Attempts |-> "unused"]
    /\ micLive = [a \in Attempts |-> FALSE]
    /\ session = [a \in Attempts |-> "none"]
    /\ pendingClose = [a \in Attempts |-> FALSE]
    /\ sessionRef = 0
    /\ mediaStreamRef = 0
    /\ scriptProcessorRef = 0
    /\ procConnected = [a \in Attempts |-> FALSE]
    /\ ctxRef = 0
    /\ ctxClosed = [a \in Attempts |-> FALSE]
    /\ sourcesRef = {}
    /\ bufState = [b \in Buffers |-> "unused"]
    /\ closedEarly = FALSE
    /\ closedIdle = FALSE
    /\ closeLog = <<>>
    /\ now = 0
    /\ nextStartTimeRef = 0
    /\ bufStart = [b \in Buffers |-> 0]
    /\ bufDur = [b \in Buffers |-> 0]
    /\ currentInputRef = <<>>
    /\ currentOutputRef = <<>>
    /\ transcriptions = <<>>
    /\ lazyUpdaters = 0
    /\ spoken = <<>>
    /\ procCtx = [a \in Attempts |-> 0]
    /\ captured = 0
    /\ queued = [a \in Attempts |-> <<>>]
    /\ sent = <<>>

\* --------------------------------------------------- analysis page (App)
Files == {"leaf.jpg", "fruit.png"}

\* what analyzeImageWithGemini gives its caller for a reply of the remote
\* service, and for a rejected generateContent
ServiceOutcome(up) ==
    LET result == JSONparse(cleanJsonString(up.text))
    IN  IF result.kind = "SyntaxError"
        THEN Thrown("Failed to parse AI response. The format was invalid.", "Error")
        ELSE Returned(result, GroundingChunksOrEmpty(up))

ServiceOutcomes ==
    {ServiceOutcome(up) : up \in ValidReplies}
        \cup {Thrown(err.message, err.type) : err \in TransportErrors}

\* MainContent: what the page shows
View ==
    IF isLoading THEN "loading"
    ELSE IF error # Null THEN "error"
    ELSE IF analysisResult # NullValue THEN "report"
    ELSE IF imageFile = Null THEN "input"
    ELSE "nothing"

\* handleAnalyze, called by the image input (which is on the page only in
\* the input view), up to reader.readAsDataURL
handleAnalyze(file) ==
    /\ View = "input"
    /\ imageFile' = file
    /\ isLoading' = TRUE
    /\ error' = Null
    /\ analysisResult' = NullValue
    /\ groundingSources' = <<>>
    /\ readerPc' = "reading"
    /\ UNCHANGED <<proxyVars, stripVars, relayVars, pcmVars, cameraVars>>

\* reader.onload up to the await of analyzeImageWithGemini
ReaderOnLoad ==
    /\ readerPc = "reading"
    /\ readerPc' = "analyzing"
    /\ UNCHANGED <<isLoading, error, analysisResult, groundingSources, imageFile,
                   proxyVars, stripVars, relayVars, pcmVars, cameraVars>>

\* reader.onerror
ReaderOnError ==
    /\ readerPc = "reading"
    /\ error' = "errorOccurred"
    /\ isLoading' = FALSE
    /\ readerPc' = "none"
    /\ UNCHANGED <<analysisResult, groundingSources, imageFile,
                   proxyVars, stripVars, relayVars, pcmVars, cameraVars>>

\* reader.onload after the await: try / catch / finally
AnalysisSettled ==
    /\ readerPc = "analyzing"
    /\ \E outcome \in ServiceOutcomes :
         IF outcome.kind = "return"
         THEN /\ analysisResult' = outcome.result
              /\ groundingSources' = outcome.sources
              /\ UNCHANGED error
         ELSE /\ error' = "errorOccurred tryAgain"
              /\ UNCHANGED <<analysisResult, groundingSources>>
    /\ isLoading' = FALSE
    /\ readerPc' = "none"
    /\ UNCHANGED <<imageFile, proxyVars, stripVars, relayVars, pcmVars, cameraVars>>

\* handleReset, called by the button of the error view and of the report view
handleReset ==
    /\ View \in {"error", "report"}
    /\ isLoading' = FALSE
    /\ error' = Null
    /\ analysisResult' = NullValue
    /\ groundingSources' = <<>>
    /\ imageFile' = Null
    /\ UNCHANGED <<readerPc, proxyVars, stripVars, relayVars, pcmVars, cameraVars>>

AppInit ==
    /\ isLoading = FALSE
    /\ error = Null
    /\ analysisResult = NullValue
    /\ groundingSources = <<>>
    /\ imageFile = Null
    /\ readerPc = "none"

\* --------------------------------- capture conversion (onaudioprocess)
\* a sample is a multiple of 1/SampleUnits in [-1, 1], held as its numerator
SampleUnits == 50000
Samples ==
    {-SampleUnits, 1 - SampleUnits, -(SampleUnits \div 2), -1, 0, 1, SampleUnits \div 2,
     SampleUnits - 1, SampleUnits}

\* the blocks of samples getChannelData(0) delivers
Blocks == SeqsUpTo(Samples, MaxBlock)
NotConverted == [kind |-> "none"]

\* the factor of inputData[i] * 32768
PcmScale == 32768

\* what storing the number p/q into an Int16Array element keeps: the number
\* truncated towards zero, modulo 2^16, read as a signed 16-bit integer
Int16Modulus == 2^16
Truncate(p, q) == IF p >= 0 THEN p \div q ELSE -((-p) \div q)
ToInt16(n) ==
    LET m == n % Int16Modulus
    IN  IF m >= Int16Modulus \div 2 THEN m - Int16Modulus ELSE m

\* int16[i] = inputData[i] * 32768
EncodeSample(x) == ToInt16(Truncate(x * PcmScale, SampleUnits))

\* the loop of onaudioprocess over one block
ConvertBlock ==
    /\ pcmOut = NotConverted
    /\ pcmOut' = [kind |-> "Int16Array",
                   data |-> [i \in DOMAIN pcmIn |-> EncodeSample(pcmIn[i])]]
    /\ UNCHANGED <<pcmIn, proxyVars, stripVars, relayVars, appVars, cameraVars>>

PcmIdle ==
    /\ pcmIn = <<>>
    /\ pcmOut = NotConverted

PcmInit ==
    /\ pcmIn \in Blocks
    /\ pcmOut = NotConverted

\* ------------------------------------------- camera capture (CameraModal)
Mounts == 1..MaxMounts

\* the stream the cleanup of the mount effect reads: the effect has no
\* dependencies, so its cleanup is the closure of the first render, in which
\* the state `stream` is null, whatever the state holds when it runs
StreamSeenByCleanup(current) == 0

\* the modal leaves the page (isCameraOpen false): the cleanup of its effect
\* stops the tracks of the stream it sees, and the state of the component
\* is dropped
UnmountModal ==
    /\ isCameraOpen' = FALSE
    /\ trackLive' = LET seen == StreamSeenByCleanup(stream)
                    IN  IF seen # 0 THEN [trackLive EXCEPT ![seen] = FALSE] ELSE trackLive
    /\ stream' = 0

\* the camera button of the image input: the modal mounts and its effect
\* calls getUserMedia
OpenCamera ==
    /\ ~isCameraOpen
    /\ nMounts < MaxMounts
    /\ isCameraOpen' = TRUE
    /\ nMounts' = nMounts + 1
    /\ camPc' = [camPc EXCEPT ![nMounts + 1] = "awaitCamera"]
    /\ stream' = 0
    /\ UNCHANGED <<trackLive, fetches, proxyVars, stripVars, relayVars, appVars, pcmVars>>

\* getUserMedia of mount m resolved: setStream (which does nothing once the
\* component of mount m has unmounted), video.srcObject
CameraGranted(m) ==
    /\ camPc[m] = "awaitCamera"
    /\ camPc' = [camPc EXCEPT ![m] = "granted"]
    /\ trackLive' = [trackLive EXCEPT ![m] = TRUE]
    /\ stream' = IF isCameraOpen /\ nMounts = m THEN m ELSE stream
    /\ UNCHANGED <<isCameraOpen, nMounts, fetches, proxyVars, stripVars, relayVars,
                   appVars, pcmVars>>

\* getUserMedia of mount m rejected: alert, then onClose(), which closes the
\* modal that is on the page
CameraDenied(m) ==
    /\ camPc[m] = "awaitCamera"
    /\ camPc' = [camPc EXCEPT ![m] = "denied"]
    /\ IF isCameraOpen THEN UnmountModal ELSE UNCHANGED <<isCameraOpen, trackLive, stream>>
    /\ UNCHANGED <<nMounts, fetches, proxyVars, stripVars, relayVars, appVars, pcmVars>>

\* the cancel button: onClose()
CancelCamera ==
    /\ isCameraOpen
    /\ UnmountModal
    /\ UNCHANGED <<nMounts, camPc, fetches, proxyVars, stripVars, relayVars, appVars,
                   pcmVars>>

\* the capture button: draw the frame, onCapture(dataUrl) starts the fetch of
\* the data URL (its continuation hands the file to onAnalyze), onClose()
handleCapture ==
    /\ isCameraOpen
    /\ fetches' = fetches + 1
    /\ UnmountModal
    /\ UNCHANGED <<nMounts, camPc, proxyVars, stripVars, relayVars, appVars, pcmVars>>

CameraInit ==
    /\ isCameraOpen = FALSE
    /\ nMounts = 0
    /\ camPc = [m \in Mounts |-> "unused"]
    /\ trackLive = [m \in Mounts |-> FALSE]
    /\ stream = 0
    /\ fetches = 0

\* ---------------------------------------------------------- specifications
Init == ProxyInit /\ StripIdle /\ RelayInit /\ AppInit /\ PcmIdle /\ CameraInit

Next ==
    \/ \E r \in Requests : EnhancedPost(r)
    \/ EnhancedOnReply
    \/ \E err \in TransportErrors : EnhancedOnReject(err)
    \/ \E r \in Requests : BasicPost(r)
    \/ BasicOnReply
    \/ \E err \in TransportErrors : BasicOnReject(err)
    \/ \E r \in ServiceRequests : ServiceCall(r)
    \/ ServiceOnReply
    \/ \E err \in TransportErrors : ServiceOnReject(err)

Spec == Init /\ [][Next]_vars

InitStrip == ProxyInit /\ StripInit /\ RelayInit /\ AppInit /\ PcmIdle /\ CameraInit

NextStrip == Strip \/ ParseStripped

SpecStrip == InitStrip /\ [][NextStrip]_vars

\* the lifecycle of the relay: every start attempt, and a remote end that
\* sends one audio part in all, and interrupted
RelayMessages ==
    {Message(<<>>, <<>>, FALSE, 1, FALSE), Message(<<>>, <<>>, FALSE, 0, TRUE)}

NextRelay ==
    \/ OpenPanel
    \/ ClosePanel
    \/ \E a \in Attempts : MicGranted(a)
    \/ \E a \in Attempts : MicDenied(a)
    \/ \E a \in Attempts : OnOpen(a)
    \/ \E a \in Attempts : SessionResolved(a)
    \/ \E a \in Attempts : SessionRejected(a)
    \/ \E a \in Attempts, msg \in RelayMessages :
            (msg.audio > 0 => bufState[1] = "unused") /\ OnMessage(a, msg)
    \/ \E a \in Attempts : OnError(a)
    \/ \E a \in Attempts : OnClose(a)

SpecRelay == Init /\ [][NextRelay]_vars

\* playback of one session: audio parts, interruptions, the clock
NextPlayback ==
    \/ OpenPanel
    \/ \E a \in Attempts : MicGranted(a)
    \/ \E a \in Attempts : OnOpen(a)
    \/ \E a \in Attempts : SessionResolved(a)
    \/ \E a \in Attempts, msg \in PlaybackMessages : OnMessage(a, msg)
    \/ Tick
    \/ \E b \in Buffers : OnEnded(b)

SpecPlayback == Init /\ [][NextPlayback]_vars

\* the transcript of one session: fragments, turn completions, renders
NextTranscript ==
    \/ OpenPanel
    \/ \E a \in Attempts : MicGranted(a)
    \/ \E a \in Attempts : OnOpen(a)
    \/ \E a \in Attempts : SessionResolved(a)
    \/ \E a \in Attempts, msg \in TranscriptMessages : OnMessage(a, msg)
    \/ Render

SpecTranscript == Init /\ [][NextTranscript]_vars

\* interruptions of one session that has a transcript and buffers in flight
NextInterrupt ==
    \/ OpenPanel
    \/ \E a \in Attempts : MicGranted(a)
    \/ \E a \in Attempts : OnOpen(a)
    \/ \E a \in Attempts : SessionResolved(a)
    \/ \E a \in Attempts, msg \in InterruptMessages : OnMessage(a, msg)
    \/ Render

SpecInterrupt == Init /\ [][NextInterrupt]_vars

\* the tracked sources over the life of one start attempt: scheduling,
\* natural end, interruption, teardown
NextTracking ==
    \/ nStarts = 0 /\ OpenPanel
    \/ ClosePanel
    \/ \E a \in Attempts : MicGranted(a)
    \/ \E a \in Attempts : OnOpen(a)
    \/ \E a \in Attempts : SessionResolved(a)
    \/ \E a \in Attempts, msg \in TrackingMessages : OnMessage(a, msg)
    \/ Tick
    \/ \E b \in Buffers : OnEnded(b)
    \/ \E a \in Attempts : OnError(a)
    \/ \E a \in Attempts : OnClose(a)

SpecTracking == Init /\ [][NextTracking]_vars

\* teardown: explicit closes in which any release step may throw
NextTeardown ==
    \/ ~Aborted /\ OpenPanel
    \/ \E failing \in 1..NoFailure : ClosePanelFailingAt(failing)
    \/ \E a \in Attempts : MicGranted(a)
    \/ \E a \in Attempts : OnOpen(a)
    \/ \E a \in Attempts : SessionResolved(a)
    \/ \E a \in Attempts, msg \in RelayMessages :
            (msg.audio > 0 => bufState[1] = "unused") /\ OnMessage(a, msg)
    \/ \E a \in Attempts : OnClose(a)

SpecTeardown == Init /\ [][NextTeardown]_vars

\* capture: the first MaxCaptureStarts start attempts, and the blocks the
\* script processors deliver
NextCapture ==
    \/ (status = "idle" => nStarts < MaxCaptureStarts) /\ OpenPanel
    \/ ClosePanel
    \/ \E a \in Attempts : MicGranted(a)
    \/ \E a \in Attempts : MicDenied(a)
    \/ \E a \in Attempts : OnOpen(a)
    \/ \E a \in Attempts : SessionResolved(a)
    \/ \E a \in Attempts : SessionRejected(a)
    \/ \E a \in Attempts : AudioProcess(a)
    \/ \E a \in Attempts : OnError(a)
    \/ \E a \in Attempts : OnClose(a)

SpecCapture == Init /\ [][NextCapture]_vars

\* the analysis page
NextApp ==
    \/ \E file \in Files : handleAnalyze(file)
    \/ ReaderOnLoad
    \/ ReaderOnError
    \/ AnalysisSettled
    \/ handleReset

SpecApp == Init /\ [][NextApp]_vars

\* the conversion of one captured block
InitPcm == ProxyInit /\ StripIdle /\ RelayInit /\ AppInit /\ PcmInit /\ CameraInit

NextPcm == ConvertBlock

SpecPcm == InitPcm /\ [][NextPcm]_vars

\* the camera modal: every mount, its camera request, cancel and capture
NextCamera ==
    \/ OpenCamera
    \/ \E m \in Mounts : CameraGranted(m)
    \/ \E m \in Mounts : CameraDenied(m)
    \/ CancelCamera
    \/ handleCapture

SpecCamera == Init /\ [][NextCamera]_vars

\* ================================================================== claims

Servers == {"enhanced", "basic"}
FieldNames == {"base64Image", "mimeType", "language"}
AbsentOrEmpty(r) == \E f \in FieldNames : r[f] \in {Undefined, ""}

IsErrorOutcome(resp) ==
    \/ resp.kind = "http" /\ ~(resp.status \in 200..299) /\ resp.error # Undefined
    \/ resp.kind = "throw"
IsSuccessOutcome(resp) ==
    \/ resp.kind = "http" /\ resp.status = 200
    \/ resp.kind = "return"

\* C1: a POST /api/analyze-image request with base64Image, mimeType or language
\* absent or empty is answered with a non-2xx status and an error string, and
\* the remote inference service is not called.
C1_MissingFieldRejectedWithoutCall ==
    (impl \in Servers /\ AbsentOrEmpty(req)) =>
        /\ pc = "done"
        /\ calls = 0
        /\ Len(responses) = 1
        /\ responses[1].kind = "http"
        /\ ~(responses[1].status \in 200..299)
        /\ responses[1].error # Undefined

C1_Witness ==
    /\ impl = "enhanced" /\ pc = "done"
    /\ req = [base64Image |-> "data", mimeType |-> "data", language |-> ""]
    /\ calls = 0
    /\ Len(responses) = 1 /\ responses[1].status = 400

\* the failure kind of a finished request, from what was sent and received
FailureKind ==
    IF pc # "done" THEN "none"
    ELSE IF impl \in Servers /\ AbsentOrEmpty(req) THEN "validation"
    ELSE IF upstream.kind = "error" THEN "transport"
    ELSE IF upstream.kind = "reply"
            /\ JSONparse(cleanJsonString(upstream.text)).kind = "SyntaxError" THEN "format"
    ELSE "none"

\* the error code the caller sees: the HTTP status and the error string
ErrorCode(resp) == [status |-> resp.status, error |-> resp.error]

ValidationCodes ==
    {[status |-> 400, error |-> "Missing required fields: base64Image, mimeType, or language"]}
TransportCodes ==
    {ErrorCode(EnhancedCatch(e.message, e.type)) : e \in TransportErrors}
        \cup {ErrorCode(BasicCatch(e.message)) : e \in TransportErrors}
FormatCodes ==
    {ErrorCode(EnhancedCatch(ParseFailureMessage, "Error")), ErrorCode(BasicCatch(SyntaxErrorMessage))}

\* C2: validation failure, transport failure and a reply that does not parse
\* after fence-stripping each give the caller an error code that the other two
\* kinds do not give.
C2_DistinctErrorCodes ==
    (impl \in Servers /\ FailureKind # "none") =>
        LET code == ErrorCode(responses[1])
        IN  /\ FailureKind = "validation" => code \notin TransportCodes \cup FormatCodes
            /\ FailureKind = "transport" => code \notin ValidationCodes \cup FormatCodes
            /\ FailureKind = "format" => code \notin ValidationCodes \cup TransportCodes

\* C3: when the reply is malformed JSON after fence-stripping, the caller gets
\* exactly one handled error outcome and the raw reply text is in the log.
C3_FormatErrorHandledAndRawTextLogged ==
    FailureKind = "format" =>
        /\ Len(responses) = 1
        /\ IsErrorOutcome(responses[1])
        /\ \E entry \in logs : entry.text = upstream.text

\* C4: a request causes at most one call to the remote service and exactly one
\* response; a failed call is not repeated.
C4_SingleCallSingleResponse ==
    /\ calls <= 1
    /\ Len(responses) <= 1
    /\ pc = "awaiting" => calls = 1 /\ Len(responses) = 0
    /\ pc = "done" => Len(responses) = 1

C4_Witness ==
    /\ pc = "done" /\ impl = "enhanced"
    /\ upstream.kind = "error"
    /\ calls = 1
    /\ Len(responses) = 1 /\ responses[1].status = 500

\* C5: in every result returned in a success response, cure is null whenever
\* isHealthy is true or objectType is "other".
C5_CureNullWhenHealthyOrOther ==
    (pc = "done" /\ Len(responses) = 1 /\ IsSuccessOutcome(responses[1])
       /\ responses[1].result.kind = "object") =>
        LET result == responses[1].result
        IN  (result.isHealthy = Bool(TRUE) \/ result.objectType = Str("other"))
                => result.cure.kind # "object"

\* C8: when validation passes and the reply is a well-formed JSON object, the
\* success response carries the object the remote service wrote, unchanged, and
\* its grounding chunks in the order returned, or the empty list without any.
C8_SuccessCarriesResultAndSources ==
    (pc = "done" /\ ~(impl \in Servers /\ AbsentOrEmpty(req))
       /\ upstream.kind = "reply" /\ upstream.bodyKind = "object"
       /\ upstream.opener = <<>> /\ upstream.closer = <<>>) =>
        /\ Len(responses) = 1
        /\ IsSuccessOutcome(responses[1])
        /\ responses[1].result = ObjectOf(upstream.members)
        /\ responses[1].sources = IF upstream.hasChunks THEN upstream.chunks ELSE <<>>

C8_Witness ==
    /\ pc = "done" /\ impl = "enhanced"
    /\ upstream.kind = "reply" /\ upstream.opener = <<>> /\ upstream.closer = <<>>
    /\ upstream.bodyKind = "object"
    /\ upstream.members = <<"\"objectType\":\"leaf\"", "\"isHealthy\":false", "\"cure\":{..}">>
    /\ upstream.hasChunks /\ upstream.chunks = <<"chunk-b", "chunk-a">>
    /\ Len(responses) = 1 /\ responses[1].status = 200
    /\ responses[1].result.isHealthy = Bool(FALSE)
    /\ responses[1].result.cure.kind = "object"
    /\ Len(responses[1].result.cure.products) = 1
    /\ responses[1].sources = <<"chunk-b", "chunk-a">>

\* ------------------------------------------------- fence stripping claims
HasFence(t) == \E i \in 1..(Len(t) - 2) : SubSeq(t, i, i + 2) = Fence

\* C6: fence-stripping returns a text without a fence unchanged, and applying
\* it twice gives the same text as applying it once.
C6_StripIdempotent ==
    /\ (Len(stripOut) >= 1 /\ ~HasFence(stripIn)) => stripOut[1] = stripIn
    /\ Len(stripOut) = 2 => stripOut[2] = stripOut[1]

\* texts a fence pair may enclose here
Enclosed == {<<"{", "}">>}
FenceTags == {<<>>, JsonTag}
LineBreaks == {<<>>, <<"\n">>}

\* C7: for an opening fence (with or without the json tag), an enclosed text and
\* a closing fence, fence-stripping returns exactly the enclosed text, and an
\* enclosed JSON object then parses.
C7_FencedTextRecovered ==
    \A tag \in FenceTags, nl \in LineBreaks, e \in Enclosed :
        (stripIn = Fence \o tag \o nl \o e \o nl \o Fence /\ Len(stripOut) >= 1) =>
            /\ stripOut[1] = e
            /\ stripParsed # NotParsed => stripParsed.kind = "object"

\* ------------------------------------------------------------ relay claims
\* no start step, handshake or close callback is still pending
Quiescent ==
    \A a \in Attempts :
        /\ startPc[a] \notin {"awaitMic", "awaitSession"}
        /\ session[a] # "connecting"
        /\ ~pendingClose[a]

NoLiveResources ==
    /\ \A a \in Attempts : ~micLive[a] /\ session[a] # "open"
    /\ sourcesRef = {}
    /\ \A b \in Buffers : bufState[b] # "scheduled"

\* C9: if the panel was closed while the relay was connecting, then once every
\* pending start step and the teardown have completed there is no live
\* microphone track, no open session and no scheduled playback buffer.
C9_EarlyCloseLeavesNothingOpen ==
    (closedEarly /\ ~isOpen /\ Quiescent) => NoLiveResources

\* C10: a transport error reported while connected releases the microphone,
\* stops the playback buffers, closes the session and leaves the status error.
C10_ErrorSettlesInError ==
    [][\A a \in Attempts :
        (status = "connected" /\ OnError(a)) =>
            /\ status' = "error"
            /\ \A x \in Attempts : session'[x] # "open"
            /\ ~micLive'[a]
            /\ sourcesRef' = {}]_vars

\* C11: after an explicit close of the panel from the connected state no
\* microphone track is live, no playback buffer is scheduled or playing, the
\* remote session is closed and the status is idle.  Stated for a close that
\* finds no start step, handshake or close callback pending.
C11_CloseFromConnectedReleasesAll ==
    [][(status = "connected" /\ Quiescent /\ ClosePanel) =>
            /\ \A a \in Attempts : ~micLive'[a]
            /\ \A b \in Buffers : bufState'[b] # "scheduled"
            /\ \A a \in Attempts : session'[a] # "open"
            /\ status' = "idle"]_vars
\* the start attempt a ended in the catch block without a session of its own
MicWasDenied(a) == startPc[a] = "failed" /\ session[a] = "none"

\* C12: when microphone access is denied the status becomes error, no remote
\* session is opened for that start attempt and the attempt never sets the
\* status to connected (its onopen never runs).
C12_MicDeniedEndsInError ==
    [][\A a \in Attempts :
        /\ (startPc[a] = "awaitMic" /\ startPc'[a] = "failed") =>
               status' = "error" /\ session'[a] = "none"
        /\ MicWasDenied(a) =>
               startPc'[a] = "failed" /\ session'[a] = "none" /\ ~OnOpen(a)]_vars

C12_Witness ==
    \E a \in Attempts : MicWasDenied(a) /\ status = "error" /\ isOpen
PreviousEnd(b) ==
    IF b > 1 /\ bufState[b - 1] \in {"scheduled", "ended"}
    THEN bufStart[b - 1] + bufDur[b - 1]
    ELSE 0

\* the step schedules buffer b
Schedules(b) == bufState[b] = "unused" /\ bufState'[b] # "unused"

\* C14: every inbound chunk starts at the later of the previous chunk's
\* scheduled end and the clock's current time; so chunks that arrive before
\* the earlier ones have finished play back to back (t0, t0+d1, t0+d1+d2).
C14_ChunksBackToBack ==
    [][\A b \in Buffers :
        Schedules(b) =>
            /\ bufStart'[b] = Max(PreviousEnd(b), now)
            /\ now < PreviousEnd(b) => bufStart'[b] = bufStart[b - 1] + bufDur[b - 1]]_vars

\* three chunks of different durations, the last two arrived while the first
\* had not finished, the first started after time 0
C14_Witness ==
    /\ \A b \in 1..3 : bufState[b] = "scheduled"
    /\ bufStart[1] > 0
    /\ now < bufStart[1] + bufDur[1]
    /\ bufDur[1] # bufDur[2]
    /\ bufStart[2] = bufStart[1] + bufDur[1]
    /\ bufStart[3] = bufStart[1] + bufDur[1] + bufDur[2]

\* C15: an interrupted message stops and forgets every scheduled or playing
\* buffer, and the chunk scheduled next starts at the clock's current time.
C15_InterruptedDiscardsAndRestarts ==
    [][/\ \A a \in Attempts, msg \in PlaybackMessages :
            (msg.interrupted /\ OnMessage(a, msg)) =>
                /\ sourcesRef' = {}
                /\ \A b \in Buffers : bufState'[b] # "scheduled"
                /\ \A b \in Buffers : bufState[b] = "scheduled" => bufState'[b] = "stopped"
       /\ \A b \in Buffers :
            (Schedules(b) /\ b > 1 /\ bufState[b - 1] = "stopped") => bufStart'[b] = now]_vars

\* a chunk was stopped by an interruption before its scheduled end, and the
\* next chunk was scheduled at the clock's time, earlier than the stale cursor
C15_Witness ==
    \E b \in Buffers :
        /\ b > 1
        /\ bufState[b - 1] = "stopped"
        /\ bufState[b] = "scheduled"
        /\ bufStart[b] < bufStart[b - 1] + bufDur[b - 1]
        /\ bufStart[b] > 0
\* -------------------------------------------------------- transcript claims
\* C16: on turn completion the user fragments, concatenated and trimmed, are
\* appended as one user turn if non-empty, then the assistant fragments
\* likewise, and both accumulators are empty afterwards: once React has run
\* the updaters, the transcript is the sequence of completed turns as spoken,
\* nothing lost and nothing attributed to the wrong speaker.
C16_TurnsAppendedAsSpoken ==
    lazyUpdaters = 0 => transcriptions = spoken
\* ----------------------------------------------------------- capture claims
\* the blocks of session a in the order in which they were sent
RECURSIVE BlocksSent(_, _)
BlocksSent(a, frames) ==
    IF frames = <<>> THEN <<>>
    ELSE (IF Head(frames)[1] = a THEN <<Head(frames)[2]>> ELSE <<>>)
             \o BlocksSent(a, Tail(frames))

Increasing(blocks) == \A i, j \in DOMAIN blocks : i < j => blocks[i] < blocks[j]

\* C17: while connected, captured frames are sent in capture order, one
\* message per captured block, none reordered, merged or dropped: a block
\* captured on an open session is sent at once, or waits behind the earlier
\* ones for the session promise and is then sent with them in order.
C17_FramesInCaptureOrder ==
    [][\A a \in Attempts :
        /\ (AudioProcess(a) /\ session[a] = "open") =>
               BlocksSent(a, sent') \o queued'[a]
                   = Append(BlocksSent(a, sent) \o queued[a], captured')
        /\ (SessionResolved(a) /\ session[a] = "open") =>
               /\ queued'[a] = <<>>
               /\ BlocksSent(a, sent') = BlocksSent(a, sent) \o queued[a]
        /\ Increasing(BlocksSent(a, sent') \o queued'[a])]_vars

\* two blocks of one session were captured and sent while connected
C17_Witness ==
    \E a \in Attempts :
        /\ status = "connected" /\ session[a] = "open" /\ startPc[a] = "done"
        /\ Len(BlocksSent(a, sent)) >= 2

\* the microphone of attempt a was granted and its handshake has completed
HandshakeDone(a) ==
    /\ startPc[a] \in {"awaitSession", "done"}
    /\ session[a] \in {"open", "closed"}

\* C18: the status becomes connected only after microphone access has been
\* granted and the handshake of the remote session has completed, and no
\* audio frame is sent before that.
C18_ConnectedOnlyAfterMicAndHandshake ==
    [][/\ (status # "connected" /\ status' = "connected") =>
            \E a \in Attempts : session[a] = "connecting" /\ HandshakeDone(a)'
       /\ \A i \in DOMAIN sent' :
            i > Len(sent) => HandshakeDone(sent'[i][1]) /\ session[sent'[i][1]] = "open"
       /\ \A a \in Attempts :
            (queued'[a] # <<>> \/ procConnected'[a]) => HandshakeDone(a)']_vars

C18_Witness ==
    /\ status = "connected"
    /\ sent # <<>>
    /\ \A a \in Attempts : session[a] = "open" => micLive[a]
\* C19: the status never moves from idle or from error directly to connected
\* (the part of the transition table that the claim singles out; the table
\* itself also lacks the move from error to idle that a close makes).
C19_ConnectedOnlyFromConnecting ==
    [][status' = "connected" => status \in {"connecting", "connected"}]_vars

\* ------------------------------------------------------- analysis page claims
\* C20: a report is never on the page while an error is set or the analysis
\* is in flight; while the analysis is in flight the previous result and
\* sources are gone; a finished analysis shows the report or the error.
C20_ReportOrErrorNeverBoth ==
    /\ View = "report" => error = Null /\ ~isLoading
    /\ isLoading => analysisResult = NullValue /\ groundingSources = <<>>
    /\ ~(error # Null /\ analysisResult # NullValue)
    /\ (imageFile # Null /\ readerPc = "none") => View \in {"report", "error"}

\* the step x comes before the step y wherever the log has both
Before(log, x, y) ==
    \A i, j \in DOMAIN log : (log[i] = x /\ log[j] = y) => i < j

\* an explicit close from connected that finds no start step, handshake or
\* close callback pending
CloseFromConnected == status = "connected" /\ Quiescent /\ isOpen /\ ~isOpen'

\* C21: on an explicit close from connected the teardown steps happen in this
\* order: the microphone is released first, then the in-flight playback
\* buffers are stopped, then the remote session is closed.  Stated for a
\* close in which no step throws.
C21_MicThenBuffersThenSession ==
    [][(CloseFromConnected /\ ~Aborted') =>
            /\ Before(closeLog', "mic", "sources")
            /\ Before(closeLog', "sources", "session")
            /\ Before(closeLog', "mic", "session")]_vars

\* C22: during teardown a thrown error in one release step does not prevent
\* the remaining steps: microphone release, playback-buffer stop and session
\* close are each attempted, and the status still reaches idle.
C22_FailingStepDoesNotSkipOthers ==
    [][CloseFromConnected =>
            /\ \A step \in {"mic", "sources", "session"} :
                   Runs(step) => \E i \in DOMAIN closeLog' : closeLog'[i] = step
            /\ status' = "idle"]_vars

\* C23: an interrupted signal is not a state transition: it leaves the relay
\* status, the remote session handle, the microphone stream and the
\* transcript unchanged, and only clears the playback buffers and resets the
\* playback cursor.
C23_InterruptedOnlyClearsPlayback ==
    [][\A a \in Attempts, msg \in InterruptMessages :
        (msg.interrupted /\ OnMessage(a, msg)) =>
            /\ UNCHANGED <<status, isOpen, sessionRef, session, pendingClose>>
            /\ UNCHANGED <<mediaStreamRef, micLive, scriptProcessorRef, procConnected>>
            /\ UNCHANGED <<transcriptions, lazyUpdaters, currentInputRef, currentOutputRef>>
            /\ UNCHANGED <<ctxRef, ctxClosed, startPc, nStarts>>
            /\ sourcesRef' = {}
            /\ nextStartTimeRef' = 0
            /\ \A b \in Buffers :
                   bufState'[b] # bufState[b] =>
                       bufState'[b] = "stopped" /\ bufState[b] \in {"scheduled", "unused"}]_vars

\* an interruption has stopped a buffer of a connected session that has a
\* turn in its transcript and text in an accumulator; session, microphone
\* and transcript are as before
C23_Witness ==
    /\ status = "connected"
    /\ sessionRef # 0 /\ session[sessionRef] = "open"
    /\ mediaStreamRef # 0 /\ micLive[mediaStreamRef]
    /\ transcriptions # <<>>
    /\ currentOutputRef # <<>>
    /\ \E b \in Buffers : bufState[b] = "stopped"
    /\ sourcesRef = {}
    /\ nextStartTimeRef = 0

\* the sequence s is the beginning of the sequence t
IsPrefix(s, t) == Len(s) <= Len(t) /\ SubSeq(t, 1, Len(s)) = s

\* C24: within one session the transcript is append-only: every inbound
\* message leaves the existing entries unchanged and in the same order, and a
\* turn completion adds zero, one or two entries at the end (at once, or
\* when React runs its updater at the next render).
C24_TranscriptAppendOnly ==
    [][nStarts' = nStarts =>
        /\ IsPrefix(transcriptions, transcriptions')
        /\ IF lazyUpdaters' < lazyUpdaters
           THEN \* a render ran the queued updaters
                Len(transcriptions') <= Len(transcriptions) + 2 * lazyUpdaters
           ELSE /\ Len(transcriptions') <= Len(transcriptions) + 2
                \* a message without turn completion (the accumulators were
                \* not cleared)
                /\ (currentInputRef' # <<>> \/ currentOutputRef' # <<>>) =>
                       transcriptions' = transcriptions]_vars

\* a completed turn put two entries on the transcript, user then assistant,
\* and a later message has added to an accumulator and left them in place
C24_Witness ==
    /\ Len(transcriptions) >= 2
    /\ transcriptions[1].author = "user"
    /\ transcriptions[2].author = "assistant"
    /\ currentInputRef # <<>>

\* the buffers that have been scheduled and have neither played to their end
\* nor been stopped
LiveBuffers == {b \in Buffers : bufState[b] = "scheduled"}

\* the step runs stopSession
Teardown == ClosePanel \/ \E a \in Attempts : OnError(a) \/ OnClose(a)

\* C25: the set of tracked playback buffers always equals the buffers that
\* have been scheduled and have neither finished playing nor been stopped: a
\* buffer enters the set when scheduled, leaves it when it ends, and the set
\* is empty after teardown and after an interruption.
C25_TrackedAreTheLiveBuffers ==
    [][/\ sourcesRef' = LiveBuffers'
       /\ \A b \in Buffers : Schedules(b) /\ bufState'[b] = "scheduled" => b \in sourcesRef'
       /\ \A b \in Buffers : bufState'[b] = "ended" => b \notin sourcesRef'
       /\ Teardown => sourcesRef' = {}
       /\ \A a \in Attempts, msg \in TrackingMessages :
              (msg.interrupted /\ OnMessage(a, msg)) => sourcesRef' = {}]_vars

\* one buffer has played to its end and left the set, one was stopped, and
\* one is tracked and still to play
C25_Witness ==
    \E b1, b2, b3 \in Buffers :
        /\ bufState[b1] = "ended"
        /\ bufState[b2] = "stopped"
        /\ bufState[b3] = "scheduled"
        /\ sourcesRef = {b3}

\* C26: at any time the relay holds at most one acquired microphone stream
\* and at most one open or opening remote session, also when the panel is
\* closed and reopened while a previous start is still in progress.
C26_OneMicrophoneOneSession ==
    /\ Cardinality({a \in Attempts : micLive[a]}) <= 1
    /\ Cardinality({a \in Attempts : session[a] \in {"connecting", "open"}}) <= 1

\* the teardown of a close has completed and the panel stays closed, or the
\* teardown of an error or remote close has completed and the panel stays
\* open with nothing started since
AfterTeardown ==
    \/ ~isOpen /\ ~isOpen'
    \/ isOpen /\ isOpen' /\ status = "idle" /\ status' = "idle"

\* C27: once teardown has completed after a close or an error, no further
\* audio frame is sent to the remote session and no further playback buffer
\* is scheduled, whatever capture callbacks, inbound messages or pending
\* promise continuations run afterwards.
C27_NothingSentAfterTeardown ==
    [][AfterTeardown =>
            /\ sent' = sent
            /\ \A b \in Buffers : ~Schedules(b)]_vars

\* C29: every submitted analysis leaves the loading state: once the file
\* read has failed, or has completed and the analysis call has settled
\* (success, format error or transport error), isLoading is false and exactly
\* one of result and error is set.
C29_SettledAnalysisHasResultOrError ==
    [][(readerPc # "none" /\ readerPc' = "none") =>
            /\ ~isLoading'
            /\ (analysisResult' # NullValue) # (error' # Null)]_vars

\* ------------------------------------------------------- conversion claim
Int16Range == -(Int16Modulus \div 2)..(Int16Modulus \div 2 - 1)

\* C28: converting a captured sample to signed 16-bit PCM keeps every input
\* in [-1,1] inside -32768..32767 without wrap-around: the sign of a non-zero
\* sample is preserved (a positive sample never encodes to a negative value,
\* nor a negative one to a positive value), and the maximum input 1.0
\* encodes to a positive value rather than to -32768.
C28_PcmKeepsSignAndRange ==
    pcmOut # NotConverted =>
        \A i \in DOMAIN pcmIn :
            /\ pcmOut.data[i] \in Int16Range
            /\ pcmIn[i] > 0 => pcmOut.data[i] >= 0
            /\ pcmIn[i] < 0 => pcmOut.data[i] <= 0
            /\ pcmIn[i] = SampleUnits => pcmOut.data[i] > 0

\* ----------------------------------------------------------- camera claim
\* the modal of mount m has been closed
ModalClosed(m) == m < nMounts \/ (m = nMounts /\ ~isCameraOpen)

\* C30: after the camera capture modal is closed (by cancel, by capture, or
\* after access succeeded and the modal unmounts), every camera track that
\* was acquired for it has been stopped.
C30_ClosedModalHasNoLiveTrack ==
    \A m \in Mounts : ModalClosed(m) => ~trackLive[m]
====
